---- MODULE Spec2Model ----
(***************************************************************************)
(* Model of the lead ingestion pipeline of Cold Leads Inbox: the App       *)
(* component's state (leads, status, errorMsg, campaign settings), the     *)
(* processFiles fan-out/fan-in over the uploaded files, the setLeads       *)
(* updater that flags duplicates, and the delayed reset of the status.     *)
(***************************************************************************)
EXTENDS Integers, Sequences, FiniteSets, TLC

VARIABLES
  leads,        \* useState<Lead[]>: the lead history, newest batch first
  status,       \* useState<ProcessingStatus>
  errorMsg,     \* useState<string | null>
  senderName,   \* campaign setting
  companyName,  \* campaign setting
  runs,         \* the calls of processFiles made so far, in call order
  timers        \* number of pending setTimeout(() => setStatus(IDLE), 4000)

vars == <<leads, status, errorMsg, senderName, companyName, runs, timers>>

----------------------------------------------------------------------------
(* Bounds of the model *)

MaxRecords == 2    \* records in one extraction response
MaxRuns == 2       \* calls of processFiles in one session
MaxReads == 2      \* files handed to a FileReader in one session

(* Program constant: "Limit to 10 files" *)
MaxBatchFiles == 10

----------------------------------------------------------------------------
(* Data *)

IDLE == "IDLE"
PROCESSING == "PROCESSING"
SUCCESS == "SUCCESS"
ERROR == "ERROR"
ProcessingStatus == {IDLE, PROCESSING, SUCCESS, ERROR}

Phones == {"555-0001", "555-0002"}

\* ExtractedData: the three fields of one record of the response
ExtractedData(p) == [fullName |-> "driver", phoneNumber |-> p, outreachMessage |-> "sms"]

\* A File: its name (stem and extension) and its declared mime type
PngFile == [stem |-> "a", ext |-> ".png", type |-> "image/png"]
CsvFile == [stem |-> "b", ext |-> ".csv", type |-> "text/csv"]
PdfFile == [stem |-> "c", ext |-> ".pdf", type |-> "application/pdf"]
Files == {PngFile, CsvFile, PdfFile}

FileName(f) == <<f.stem, f.ext>>

SeqsUpTo(S, n) == UNION {[1..k -> S] : k \in 0..n}

\* The FileLists a user submits: one file, two files, three files of which one
\* is of a type that is not read, and more files than processFiles takes.
FileLists ==
  {<<PngFile>>, <<CsvFile, PngFile>>, <<PngFile, PdfFile, CsvFile>>,
   [i \in 1..(MaxBatchFiles + 1) |-> PdfFile]}

\* Files of every pairing of a declared mime type (none, generic, image, text,
\* other) with an extension
MimeTypes ==
  {"", "application/octet-stream", "image/png", "image/jpeg", "text/csv", "text/plain",
   "application/pdf", "application/vnd.ms-excel"}
Extensions == {".png", ".csv", ".txt", ".pdf"}
AnyFiles == {[stem |-> "d", ext |-> e, type |-> t] : e \in Extensions, t \in MimeTypes}

\* Settings a user types
SenderNames == {"", "Paul"}
CompanyNames == {"", "TLG"}

----------------------------------------------------------------------------
(* readFile: how a file is read, decided from its mime type and its name *)

StartsWithImage(type) == type \in {"image/png", "image/jpeg"}

\* Mutant of readFile: the name is looked at before the mime type
ReadKindNameFirst(file) ==
  IF file.ext = ".csv" \/ file.ext = ".txt" THEN "text"
  ELSE IF StartsWithImage(file.type) THEN "dataURL"
  ELSE IF file.type = "text/csv" \/ file.type = "text/plain" THEN "text"
  ELSE "unsupported"

ReadKind(file) ==
  IF StartsWithImage(file.type) THEN "dataURL"
  ELSE IF \/ file.type = "text/csv"
          \/ file.type = "text/plain"
          \/ file.ext = ".csv"
          \/ file.ext = ".txt"
       THEN "text"
       ELSE "unsupported"

\* The mime type readFile resolves with
ReadMimeType(file) == IF ReadKind(file) = "dataURL" THEN file.type ELSE "text/plain"

\* Messages of the errors readFile rejects with and extractLeadsFromFile throws
UnsupportedFileType == "Unsupported file type"
FileReadFailure == "Failed to read file"
ExtractionFailure == "Failed to extract data"
TypeError == "TypeError"

\* errors.push(`${file.name}: ${err.message}`)
ErrorEntry(file, message) == [file |-> FileName(file), message |-> message]

----------------------------------------------------------------------------
(* extractLeadsFromFile: from the response of generateContent to its result *)

RecordLists == SeqsUpTo({ExtractedData(p) : p \in Phones}, MaxRecords)

\* What generateContent does: it throws, or it answers with a text that is
\* empty, not JSON, a JSON value that is no array, or a JSON array of records
\* (bare or inside a markdown fence).
Responses ==
  {[kind |-> k, data |-> <<>>] : k \in {"throws", "empty", "garbled", "object"}}
    \cup {[kind |-> k, data |-> d] : k \in {"array", "fenced"}, d \in RecordLists}

\* cleanJsonOutput removes the markdown fence around the JSON
cleanJsonOutput(response) ==
  IF response.kind = "fenced" THEN [response EXCEPT !.kind = "array"] ELSE response

\* The result: ok = FALSE when it throws; otherwise the parsed value, which is
\* an array (isArray, data) or some other JSON value.
extractLeadsFromFile(response) ==
  IF response.kind = "throws" THEN [ok |-> FALSE, isArray |-> FALSE, data |-> <<>>]
  ELSE IF response.kind = "empty" THEN [ok |-> TRUE, isArray |-> TRUE, data |-> <<>>]
  ELSE LET textOutput == cleanJsonOutput(response) IN
       IF textOutput.kind = "garbled" THEN [ok |-> FALSE, isArray |-> FALSE, data |-> <<>>]
       ELSE IF textOutput.kind = "object" THEN [ok |-> TRUE, isArray |-> FALSE, data |-> <<>>]
       ELSE [ok |-> TRUE, isArray |-> TRUE, data |-> textOutput.data]

\* What a call of extractLeadsFromFile can end with
GatewayResults == {extractLeadsFromFile(response) : response \in Responses}

\* A record of the response that lacks its phoneNumber: the field reads undefined
Undefined == "undefined"
PartialData == [fullName |-> "driver", phoneNumber |-> Undefined, outreachMessage |-> "sms"]

\* The responses with records of either kind, and what the call can end with
AnyRecordLists == SeqsUpTo({ExtractedData(p) : p \in Phones} \cup {PartialData}, MaxRecords)

AnyResponses ==
  Responses \cup {[kind |-> k, data |-> d] : k \in {"array", "fenced"}, d \in AnyRecordLists}

AnyGatewayResults == {extractLeadsFromFile(response) : response \in AnyResponses}

----------------------------------------------------------------------------
(* processFiles: the per-file task *)

\* Mutant of the id: made once for a file, outside the map over its records
RandomUUIDPerFile(r, i, k) == <<r, i, 1>>

\* extractedData.map(item => ({id: crypto.randomUUID(), ...})) in task i of run
\* r at time now. A UUID is the place of the call of randomUUID that made it
\* (run, file, record): no two calls share a place.
RandomUUID(r, i, k) == <<r, i, k>>

\* Mutant of the time: taken once, when the run begins
NowAtStart(run) == 0

\* new Date() in a task of run: the time since the run began, counted in the
\* tasks of the run that have completed
Now(run) == Cardinality({i \in DOMAIN run.tasks : run.tasks[i].pc = "done"})

MapToLeads(data, file, r, i, now) ==
  [k \in 1..Len(data) |->
     [id |-> RandomUUID(r, i, k),
      fullName |-> data[k].fullName,
      phoneNumber |-> data[k].phoneNumber,
      outreachMessage |-> data[k].outreachMessage,
      sourceFile |-> FileName(file),
      isDuplicate |-> FALSE,
      extractedAt |-> now]]

\* A task: where it is, whether its file was handed to a FileReader, whether
\* extractLeadsFromFile was called for it and with which arguments, whether
\* it pushed an error, and the array it returned.
NewTask(file) ==
  IF ReadKind(file) = "unsupported"
    THEN [pc |-> "done", read |-> FALSE, called |-> FALSE, args |-> <<>>,
          failed |-> TRUE, result |-> <<>>]
    ELSE [pc |-> "reading", read |-> TRUE, called |-> FALSE, args |-> <<>>,
          failed |-> FALSE, result |-> <<>>]

\* extractLeadsFromFile(content, mimeType, senderName, companyName) of a task
\* of run: the content is what the reader gave for the file
CallArgs(run, file) ==
  [content |-> <<ReadKind(file), FileName(file)>>, mimeType |-> ReadMimeType(file),
   senderName |-> run.sender, companyName |-> run.company]

\* The errors pushed before the first await returns: the files readFile rejects
RECURSIVE RejectedAtOnce(_)
RejectedAtOnce(files) ==
  IF files = <<>> THEN <<>>
  ELSE (IF ReadKind(Head(files)) = "unsupported"
          THEN <<ErrorEntry(Head(files), UnsupportedFileType)>> ELSE <<>>)
       \o RejectedAtOnce(Tail(files))

\* Mutant of the join: a task that fails rejects, and Promise.all with it
AllSettledOrRejected(run) ==
  \/ \A i \in DOMAIN run.tasks : run.tasks[i].pc = "done"
  \/ \E i \in DOMAIN run.tasks : run.tasks[i].failed

\* await Promise.all(promises): no task rejects, so it resumes when all are done
AllSettled(run) == \A i \in DOMAIN run.tasks : run.tasks[i].pc = "done"

\* results.forEach(batch => newLeadsAccumulator.push(...batch))
RECURSIVE Flatten(_)
Flatten(results) ==
  IF results = <<>> THEN <<>> ELSE Head(results) \o Flatten(Tail(results))

\* Mutant of the results: in the reverse of the order of the files
ResultsReversed(run) ==
  [i \in DOMAIN run.tasks |-> run.tasks[Len(run.tasks) + 1 - i].result]

Results(run) == [i \in DOMAIN run.tasks |-> run.tasks[i].result]

NewLeadsAccumulator(run) == Flatten(Results(run))

----------------------------------------------------------------------------
(* processFiles: the setLeads updater *)

RECURSIVE ProcessedBatch(_, _)
ProcessedBatch(acc, existingPhones) ==
  IF acc = <<>> THEN <<>>
  ELSE LET lead == Head(acc) IN
       IF lead.phoneNumber \in existingPhones
         THEN <<[lead EXCEPT !.isDuplicate = TRUE]>>
                \o ProcessedBatch(Tail(acc), existingPhones)
         ELSE <<[lead EXCEPT !.isDuplicate = FALSE]>>
                \o ProcessedBatch(Tail(acc), existingPhones \cup {lead.phoneNumber})

\* Mutants of the updater: flags against the history alone; flags computed
\* anew over the whole history; the batch put behind the history; the history
\* of the first render instead of the current one.
SetLeadsUpdaterHistoryOnly(prevLeads, acc) ==
  [k \in DOMAIN acc |->
     [acc[k] EXCEPT !.isDuplicate =
        acc[k].phoneNumber \in {prevLeads[i].phoneNumber : i \in DOMAIN prevLeads}]]
    \o prevLeads

SetLeadsUpdaterReflag(prevLeads, acc) == ProcessedBatch(acc \o prevLeads, {})

SetLeadsUpdaterAppend(prevLeads, acc) ==
  prevLeads \o ProcessedBatch(acc, {prevLeads[i].phoneNumber : i \in DOMAIN prevLeads})

SetLeadsUpdaterStale(prevLeads, acc) == ProcessedBatch(acc, {})

\* Mutant of the updater: of the leads of the batch with one number, the one
\* extracted earliest counts as new
SetLeadsUpdaterEarliestWins(prevLeads, acc) ==
  [k \in DOMAIN acc |->
     [acc[k] EXCEPT !.isDuplicate =
        \/ acc[k].phoneNumber \in {prevLeads[i].phoneNumber : i \in DOMAIN prevLeads}
        \/ \E j \in DOMAIN acc :
             /\ j # k
             /\ acc[j].phoneNumber = acc[k].phoneNumber
             /\ \/ acc[j].extractedAt < acc[k].extractedAt
                \/ acc[j].extractedAt = acc[k].extractedAt /\ j < k]]
    \o prevLeads

\* Mutant of the updater: the leads of the history whose number comes again
\* in the batch are flagged too
SetLeadsUpdaterFlagsBoth(prevLeads, acc) ==
  ProcessedBatch(acc, {prevLeads[i].phoneNumber : i \in DOMAIN prevLeads})
    \o [i \in DOMAIN prevLeads |->
          [prevLeads[i] EXCEPT !.isDuplicate =
             @ \/ prevLeads[i].phoneNumber \in {acc[k].phoneNumber : k \in DOMAIN acc}]]

SetLeadsUpdater(prevLeads, acc) ==
  ProcessedBatch(acc, {prevLeads[i].phoneNumber : i \in DOMAIN prevLeads}) \o prevLeads

----------------------------------------------------------------------------
(* processFiles: what it reports *)

\* The values of errorMsg: null, or a message and the per-file errors joined in it
NoMessage == [text |-> "null", errors |-> <<>>]
BatchTooLarge == [text |-> "Please upload a maximum of 10 files at a time.", errors |-> <<>>]
NoLeadsFound == [text |-> "No valid leads found in the uploaded files.", errors |-> <<>>]
BatchExtractionFailed(errors) ==
  [text |-> "Failed to extract leads from uploaded files. Errors: ", errors |-> errors]
PartialWarning(errors) == [text |-> "Processed with some errors: ", errors |-> errors]

\* Mutants of the throw: any per-file error fails the batch; the errors are
\* not looked at; the errors are not asked for.
ThrownOnAnyError(acc, errors) ==
  IF Len(errors) > 0 THEN BatchExtractionFailed(errors)
  ELSE IF Len(acc) = 0 THEN NoLeadsFound
  ELSE NoMessage

ThrownNoLeadsOnly(acc, errors) == IF Len(acc) = 0 THEN NoLeadsFound ELSE NoMessage

ThrownFailedOnly(acc, errors) ==
  IF Len(acc) = 0 THEN BatchExtractionFailed(errors) ELSE NoMessage

\* The error thrown after the join, if any
Thrown(acc, errors) ==
  IF Len(acc) = 0 /\ Len(errors) > 0 THEN BatchExtractionFailed(errors)
  ELSE IF Len(acc) = 0 THEN NoLeadsFound
  ELSE NoMessage

\* Mutant of the limit: off by one
TooManyFilesOffByOne(files) == Len(files) > MaxBatchFiles + 1

TooManyFiles(files) == Len(files) > MaxBatchFiles

----------------------------------------------------------------------------
(* The stats shown above the table *)

TotalLeads == Len(leads)

DuplicateCount == Cardinality({a \in DOMAIN leads : leads[a].isDuplicate})

NewLeads == TotalLeads - DuplicateCount

----------------------------------------------------------------------------
(* The state after construction *)

Init ==
  /\ leads = <<>>
  /\ status = IDLE
  /\ errorMsg = NoMessage
  /\ senderName = ""
  /\ companyName = ""
  /\ runs = <<>>
  /\ timers = 0

----------------------------------------------------------------------------
(* processFiles *)

\* The rest of processFiles after await Promise.all, for run r of rs, with
\* shown the value of errorMsg when it resumes: it runs in the same turn of
\* the event loop as the completion of the last task.
AfterJoin(rs, r, shown) ==
  LET acc == NewLeadsAccumulator(rs[r])
      errors == rs[r].errors
      thrown == Thrown(acc, errors)
  IN /\ timers' = timers + 1
     /\ IF thrown # NoMessage
          THEN /\ status' = ERROR
               /\ errorMsg' = thrown
               /\ leads' = leads
               /\ runs' = [rs EXCEPT ![r].pc = "done", ![r].outcome = ERROR]
          ELSE /\ leads' = SetLeadsUpdater(leads, acc)
               /\ status' = SUCCESS
               /\ errorMsg' = IF Len(errors) > 0 THEN PartialWarning(errors) ELSE shown
               /\ runs' = [rs EXCEPT ![r].pc = "done", ![r].outcome = SUCCESS]

\* A task of run r has completed, giving rs: processFiles resumes if it was the last
TaskCompleted(rs, r) ==
  IF AllSettled(rs[r])
    THEN AfterJoin(rs, r, errorMsg)
    ELSE /\ runs' = rs
         /\ UNCHANGED <<leads, status, errorMsg, timers>>

\* processFiles(files), called from a closure that holds sender and company,
\* up to its first return to the event loop
ProcessFiles(files, sender, company) ==
  IF TooManyFiles(files)
    THEN /\ errorMsg' = BatchTooLarge
         /\ runs' = Append(runs, [files |-> files, sender |-> sender, company |-> company,
                                  pc |-> "rejected", tasks |-> <<>>, errors |-> <<>>,
                                  outcome |-> "none"])
         /\ UNCHANGED <<leads, status, timers>>
    ELSE LET run == [files |-> files, sender |-> sender, company |-> company,
                     pc |-> "await",
                     tasks |-> [i \in DOMAIN files |-> NewTask(files[i])],
                     errors |-> RejectedAtOnce(files),
                     outcome |-> "none"]
             rs == Append(runs, run)
         IN IF AllSettled(run)
              THEN AfterJoin(rs, Len(rs), NoMessage)
              ELSE /\ status' = PROCESSING
                   /\ errorMsg' = NoMessage
                   /\ runs' = rs
                   /\ UNCHANGED <<leads, timers>>

\* The upload control takes files unless it is rendered while PROCESSING
UploadEnabled == status # PROCESSING

\* The session's budget: calls of processFiles, and files handed to a FileReader
RECURSIVE Reads(_)
Reads(rs) ==
  IF rs = <<>> THEN 0
  ELSE Cardinality({i \in DOMAIN Head(rs).tasks : Head(rs).tasks[i].read}) + Reads(Tail(rs))

Readable(files) == Cardinality({i \in DOMAIN files : ReadKind(files[i]) # "unsupported"})

WithinBudget(files) ==
  /\ Len(runs) < MaxRuns
  /\ TooManyFiles(files) \/ Reads(runs) + Readable(files) <= MaxReads

\* onChange of the file input: processFiles of the current render
HandleInputChange(files) ==
  /\ UploadEnabled
  /\ WithinBudget(files)
  /\ Len(files) > 0
  /\ ProcessFiles(files, senderName, companyName)
  /\ UNCHANGED <<senderName, companyName>>

\* onDrop: useCallback(..., []) keeps the processFiles of the first render
HandleDrop(files) ==
  /\ UploadEnabled
  /\ WithinBudget(files)
  /\ Len(files) > 0
  /\ ProcessFiles(files, "", "")
  /\ UNCHANGED <<senderName, companyName>>

\* reader.onload of task i of run r: extractLeadsFromFile is called
ReadLoaded(r, i) ==
  /\ runs[r].pc = "await"
  /\ runs[r].tasks[i].pc = "reading"
  /\ runs' = [runs EXCEPT ![r].tasks[i].pc = "extracting",
                           ![r].tasks[i].called = TRUE,
                           ![r].tasks[i].args = CallArgs(runs[r], runs[r].files[i])]
  /\ UNCHANGED <<leads, status, errorMsg, senderName, companyName, timers>>

\* Mutant of reader.onerror: the rejection is swallowed and the task goes on
\* to call extractLeadsFromFile
ReadFailedGoesOn(r, i) ==
  /\ runs[r].pc = "await"
  /\ runs[r].tasks[i].pc = "reading"
  /\ runs' = [runs EXCEPT ![r].tasks[i].pc = "extracting",
                           ![r].tasks[i].called = TRUE,
                           ![r].tasks[i].failed = TRUE,
                           ![r].tasks[i].args = CallArgs(runs[r], runs[r].files[i])]
  /\ UNCHANGED <<leads, status, errorMsg, senderName, companyName, timers>>

\* reader.onerror of task i of run r
ReadFailed(r, i) ==
  /\ runs[r].pc = "await"
  /\ runs[r].tasks[i].pc = "reading"
  /\ TaskCompleted([runs EXCEPT ![r].tasks[i].pc = "done",
                                ![r].tasks[i].failed = TRUE,
                                ![r].errors = Append(@, ErrorEntry(runs[r].files[i], FileReadFailure))],
                   r)
  /\ UNCHANGED <<senderName, companyName>>

\* extractLeadsFromFile of task i of run r ends with extractedData
Extracted(r, i, extractedData) ==
  /\ runs[r].pc = "await"
  /\ runs[r].tasks[i].pc = "extracting"
  /\ LET file == runs[r].files[i]
         failure == IF ~extractedData.ok THEN ExtractionFailure
                    ELSE IF ~extractedData.isArray THEN TypeError
                    ELSE "none"
     IN IF failure # "none"
          THEN TaskCompleted([runs EXCEPT ![r].tasks[i].pc = "done",
                                          ![r].tasks[i].failed = TRUE,
                                          ![r].errors = Append(@, ErrorEntry(file, failure))],
                             r)
          ELSE TaskCompleted([runs EXCEPT ![r].tasks[i].pc = "done",
                                          ![r].tasks[i].result =
                                             MapToLeads(extractedData.data, file, r, i, Now(runs[r]))],
                             r)
  /\ UNCHANGED <<senderName, companyName>>

\* setTimeout(() => setStatus(ProcessingStatus.IDLE), 4000) comes due
TimerFires ==
  /\ timers > 0
  /\ timers' = timers - 1
  /\ status' = IDLE
  /\ UNCHANGED <<leads, errorMsg, senderName, companyName, runs>>

SetSenderName(v) ==
  /\ v # senderName
  /\ senderName' = v
  /\ UNCHANGED <<leads, status, errorMsg, companyName, runs, timers>>

SetCompanyName(v) ==
  /\ v # companyName
  /\ companyName' = v
  /\ UNCHANGED <<leads, status, errorMsg, senderName, runs, timers>>

\* A session in which the campaign settings keep their first values
Next ==
  \/ \E files \in FileLists : HandleInputChange(files)
  \/ \E files \in FileLists : HandleDrop(files)
  \/ \E r \in DOMAIN runs : \E i \in DOMAIN runs[r].tasks : ReadLoaded(r, i)
  \/ \E r \in DOMAIN runs : \E i \in DOMAIN runs[r].tasks : ReadFailed(r, i)
  \/ \E r \in DOMAIN runs : \E i \in DOMAIN runs[r].tasks :
       \E extractedData \in GatewayResults : Extracted(r, i, extractedData)
  \/ TimerFires

Spec == Init /\ [][Next]_vars

\* The state while the reset timer of an upload that failed is pending (its
\* one file could not be read); runs holds the calls made since.
InitTimerPending ==
  /\ leads = <<>>
  /\ status = ERROR
  /\ errorMsg = BatchExtractionFailed(<<ErrorEntry(PngFile, FileReadFailure)>>)
  /\ senderName = ""
  /\ companyName = ""
  /\ runs = <<>>
  /\ timers = 1

SpecTimerPending == InitTimerPending /\ [][Next]_vars

\* A session of one upload of one file of any type and extension, to which
\* generateContent gives any response
DecodeOne(file) ==
  /\ runs = <<>>
  /\ UploadEnabled
  /\ ProcessFiles(<<file>>, senderName, companyName)
  /\ UNCHANGED <<senderName, companyName>>

NextOneFile ==
  \/ \E file \in AnyFiles : DecodeOne(file)
  \/ \E r \in DOMAIN runs : \E i \in DOMAIN runs[r].tasks : ReadLoaded(r, i)
  \/ \E r \in DOMAIN runs : \E i \in DOMAIN runs[r].tasks : ReadFailed(r, i)
  \/ \E r \in DOMAIN runs : \E i \in DOMAIN runs[r].tasks :
       \E extractedData \in AnyGatewayResults : Extracted(r, i, extractedData)
  \/ TimerFires

SpecOneFile == Init /\ [][NextOneFile]_vars

\* A session in which the user also edits the campaign settings
NextSettings ==
  \/ \E v \in SenderNames : SetSenderName(v)
  \/ \E v \in CompanyNames : SetCompanyName(v)
  \/ \E files \in FileLists : HandleInputChange(files)
  \/ \E files \in FileLists : HandleDrop(files)
  \/ \E r \in DOMAIN runs : \E i \in DOMAIN runs[r].tasks : ReadLoaded(r, i)
  \/ \E r \in DOMAIN runs : \E i \in DOMAIN runs[r].tasks : ReadFailed(r, i)
  \/ \E r \in DOMAIN runs : \E i \in DOMAIN runs[r].tasks :
       \E extractedData \in GatewayResults : Extracted(r, i, extractedData)
  \/ TimerFires

SpecSettings == Init /\ [][NextSettings]_vars

\* The next step of task i of run r: its read loads or fails, its call ends
TaskStep(r, i) ==
  /\ r \in DOMAIN runs
  /\ i \in DOMAIN runs[r].tasks
  /\ \/ ReadLoaded(r, i)
     \/ ReadFailed(r, i)
     \/ \E extractedData \in GatewayResults : Extracted(r, i, extractedData)

\* Every read and every call that is pending completes, and a timer that is
\* pending comes due
Fairness ==
  /\ \A r \in 1..MaxRuns : \A i \in 1..MaxBatchFiles : WF_vars(TaskStep(r, i))
  /\ WF_vars(TimerFires)

SpecFair == Init /\ [][Next]_vars /\ Fairness

----------------------------------------------------------------------------
(* Vocabulary of the properties *)

\* The step is processFiles of run r resuming after the join and finishing
Joined(r) ==
  /\ r \in DOMAIN runs'
  /\ runs'[r].pc = "done"
  /\ (r \in DOMAIN runs => runs[r].pc = "await")

\* The step merges a batch into the history
Merged(r) == Joined(r) /\ runs'[r].outcome = SUCCESS

\* The run whose task made the lead
RunOf(lead) == lead.id[1]

PhonesOf(ls) == {ls[i].phoneNumber : i \in DOMAIN ls}

\* The number of leads a step puts in front of the history
Grown == Len(leads') - Len(leads)

\* The files of a run whose task pushed an error, and those named in a message
FailedFiles(run) == {i \in DOMAIN run.tasks : run.tasks[i].failed}

NamedIn(msg) == {msg.errors[k].file : k \in DOMAIN msg.errors}

RECURSIVE SumLen(_)
SumLen(ss) == IF ss = <<>> THEN 0 ELSE Len(Head(ss)) + SumLen(Tail(ss))

\* The runs that merged a batch
Succeeded == {r \in DOMAIN runs : runs[r].pc = "done" /\ runs[r].outcome = SUCCESS}

\* The number of leads in the batches that the runs of rs merged
RECURSIVE MergedCount(_)
MergedCount(rs) ==
  IF rs = <<>> THEN 0
  ELSE (IF Head(rs).pc = "done" /\ Head(rs).outcome = SUCCESS
          THEN SumLen(Results(Head(rs))) ELSE 0)
       + MergedCount(Tail(rs))

----------------------------------------------------------------------------
(* C1: in every merge of a batch B into a history H, a lead materialized   *)
(* from B is flagged isDuplicate exactly when its phone number occurs in H  *)
(* or at an earlier position of B; so the first occurrence in B of a number *)
(* absent from H is not flagged.                                            *)
C1_DuplicateFlagging ==
  [][\A r \in DOMAIN runs' :
       Merged(r) =>
         /\ Grown = Len(NewLeadsAccumulator(runs'[r]))
         /\ \A k \in 1..Grown :
              /\ leads'[k].id = NewLeadsAccumulator(runs'[r])[k].id
              /\ leads'[k].isDuplicate <=>
                    \/ leads'[k].phoneNumber \in PhonesOf(leads)
                    \/ \E j \in 1..(k - 1) : leads'[j].phoneNumber = leads'[k].phoneNumber]_vars

\* A batch merged into a history that lacks its number: the first occurrence
\* is not flagged, the second is
C1_Witness ==
  \E a, b, c \in DOMAIN leads :
    /\ a < b /\ b < c
    /\ RunOf(leads[a]) = RunOf(leads[b])
    /\ RunOf(leads[c]) # RunOf(leads[a])
    /\ leads[a].phoneNumber = leads[b].phoneNumber
    /\ leads[c].phoneNumber # leads[a].phoneNumber
    /\ ~leads[a].isDuplicate
    /\ leads[b].isDuplicate

(* C2: every step leaves the prior history as the suffix of the history,   *)
(* element for element identical in every field and in the same order: no  *)
(* lead is removed, reordered or changed, no isDuplicate flag is revised.   *)
C2_HistoryIsSuffix ==
  [][/\ Len(leads') >= Len(leads)
     /\ SubSeq(leads', Grown + 1, Len(leads')) = leads]_vars

\* A batch was merged in front of a history that holds a flagged lead
C2_Witness ==
  \E a, b, c \in DOMAIN leads :
    /\ a < b /\ b < c
    /\ RunOf(leads[a]) # RunOf(leads[b])
    /\ RunOf(leads[b]) = RunOf(leads[c])
    /\ leads[a].phoneNumber = leads[b].phoneNumber
    /\ leads[a].isDuplicate
    /\ leads[c].isDuplicate

(* C3: a batch that produces at least one candidate ends in SUCCESS even   *)
(* if files failed; the history grows by the number of candidates of the   *)
(* files that succeeded; the warning names exactly the failed files, once   *)
(* each; a file with an empty list adds neither a lead nor an error.        *)
C3_PartialSuccess ==
  [][\A r \in DOMAIN runs' :
       Joined(r) /\ SumLen(Results(runs'[r])) > 0 =>
         LET run == runs'[r] IN
         /\ Len(run.files) \in 1..MaxBatchFiles
         /\ status' = SUCCESS
         /\ run.outcome = SUCCESS
         /\ Grown = SumLen(Results(run))
         /\ \A i \in DOMAIN run.tasks : run.tasks[i].failed => run.tasks[i].result = <<>>
         /\ IF FailedFiles(run) = {}
              THEN errorMsg' = errorMsg \/ errorMsg' = NoMessage
              ELSE /\ errorMsg'.text = PartialWarning(<<>>).text
                   /\ Len(errorMsg'.errors) = Cardinality(FailedFiles(run))
                   /\ NamedIn(errorMsg') = {FileName(run.files[i]) : i \in FailedFiles(run)}]_vars

\* Three files: one gave two leads, one failed, one gave an empty list
C3_Witness ==
  \E r \in DOMAIN runs : \E i, j, k \in DOMAIN runs[r].tasks :
    /\ runs[r].pc = "done" /\ runs[r].outcome = SUCCESS
    /\ Len(runs[r].tasks[i].result) = 2
    /\ runs[r].tasks[j].failed
    /\ ~runs[r].tasks[k].failed /\ runs[r].tasks[k].called /\ runs[r].tasks[k].result = <<>>
    /\ status = SUCCESS
    /\ Len(leads) = 2
    /\ NamedIn(errorMsg) = {FileName(runs[r].files[j])}

(* C4: a batch that ends with no candidate and one or more per-file errors *)
(* ends in ERROR with the message that carries every per-file error, and   *)
(* leaves the history as it was.                                            *)
C4_BatchExtractionFailed ==
  [][\A r \in DOMAIN runs' :
       Joined(r) /\ SumLen(Results(runs'[r])) = 0 /\ FailedFiles(runs'[r]) # {} =>
         LET run == runs'[r] IN
         /\ status' = ERROR
         /\ run.outcome = ERROR
         /\ errorMsg'.text = BatchExtractionFailed(<<>>).text
         /\ Len(errorMsg'.errors) = Cardinality(FailedFiles(run))
         /\ NamedIn(errorMsg') = {FileName(run.files[i]) : i \in FailedFiles(run)}
         /\ leads' = leads]_vars

\* A batch failed so after an earlier batch had put leads in the history
C4_Witness ==
  \E r \in DOMAIN runs :
    /\ runs[r].pc = "done" /\ runs[r].outcome = ERROR
    /\ Len(runs[r].errors) > 0
    /\ status = ERROR
    /\ errorMsg = BatchExtractionFailed(runs[r].errors)
    /\ Len(leads) > 0

(* C5: a batch of 1..10 files in which every file is read and extracted to *)
(* an empty list ends in ERROR with NoLeadsFound and leaves the history as  *)
(* it was; no other batch ends with NoLeadsFound and no other step shows it. *)
C5_NoLeadsFound ==
  [][/\ \A r \in DOMAIN runs' :
          Joined(r) =>
            LET run == runs'[r]
                allEmpty == \A i \in DOMAIN run.tasks :
                              /\ run.tasks[i].called /\ ~run.tasks[i].failed
                              /\ run.tasks[i].result = <<>>
            IN /\ allEmpty =>
                    /\ Len(run.files) \in 1..MaxBatchFiles
                    /\ status' = ERROR /\ run.outcome = ERROR
                    /\ errorMsg' = NoLeadsFound
                    /\ leads' = leads
               /\ run.outcome = ERROR /\ errorMsg' = NoLeadsFound => allEmpty
     /\ (\A r \in DOMAIN runs' : ~Joined(r)) /\ errorMsg' = NoLeadsFound
          => errorMsg = NoLeadsFound]_vars

\* Both files of a batch gave an empty list
C5_Witness ==
  \E r \in DOMAIN runs :
    /\ runs[r].pc = "done" /\ runs[r].outcome = ERROR
    /\ Len(runs[r].files) = 2
    /\ \A i \in DOMAIN runs[r].tasks : runs[r].tasks[i].called /\ ~runs[r].tasks[i].failed
    /\ status = ERROR
    /\ errorMsg = NoLeadsFound

(* C6: a call of processFiles with more than 10 files sets the error       *)
(* message and nothing else: the history, the status and the timers stay,   *)
(* no file is read, extractLeadsFromFile is not called, then or later.      *)
C6_BatchTooLarge ==
  [][/\ \A r \in DOMAIN runs' :
          r \notin DOMAIN runs /\ Len(runs'[r].files) > MaxBatchFiles =>
            /\ errorMsg' = BatchTooLarge
            /\ leads' = leads
            /\ status' = status
            /\ timers' = timers
            /\ runs'[r].pc = "rejected"
            /\ runs'[r].tasks = <<>>
            /\ runs'[r].errors = <<>>
     /\ \A r \in DOMAIN runs :
          Len(runs[r].files) > MaxBatchFiles => runs'[r] = runs[r]]_vars

\* Eleven files were submitted while the last batch's SUCCESS was shown
C6_Witness ==
  \E r \in DOMAIN runs :
    /\ Len(runs[r].files) = MaxBatchFiles + 1
    /\ runs[r].pc = "rejected"
    /\ errorMsg = BatchTooLarge
    /\ status = SUCCESS
    /\ Len(leads) > 0

(* C7: in every batch processFiles takes, a task is started for every      *)
(* file, processFiles resumes after the join only when every task has       *)
(* completed, and a task that fails changes no other task of the batch and  *)
(* pushes one error entry, tagged with the name of its file.                *)
C7_FailureIsolation ==
  /\ [](\A r \in DOMAIN runs :
           runs[r].pc # "rejected" =>
             /\ DOMAIN runs[r].tasks = DOMAIN runs[r].files
             /\ \A i \in DOMAIN runs[r].tasks : runs[r].tasks[i].read \/ runs[r].tasks[i].failed
             /\ runs[r].pc = "done" => \A i \in DOMAIN runs[r].tasks : runs[r].tasks[i].pc = "done"
             /\ Len(runs[r].errors) = Cardinality(FailedFiles(runs[r])))
  /\ [][\A r \in DOMAIN runs : \A i \in DOMAIN runs[r].tasks :
          runs[r].tasks[i].pc # "done" /\ runs'[r].tasks[i].pc = "done" /\ runs'[r].tasks[i].failed =>
            /\ \A j \in DOMAIN runs[r].tasks : j # i => runs'[r].tasks[j] = runs[r].tasks[j]
            /\ Len(runs'[r].errors) = Len(runs[r].errors) + 1
            /\ SubSeq(runs'[r].errors, 1, Len(runs[r].errors)) = runs[r].errors
            /\ runs'[r].errors[Len(runs'[r].errors)].file = FileName(runs[r].files[i])]_vars

\* After the task of one file failed, the task of another file is still running
C7_Witness ==
  \E r \in DOMAIN runs : \E i, j \in DOMAIN runs[r].tasks :
    /\ runs[r].pc = "await"
    /\ status = PROCESSING
    /\ runs[r].tasks[i].pc = "done" /\ runs[r].tasks[i].called /\ runs[r].tasks[i].failed
    /\ runs[r].tasks[j].pc = "extracting"

(* C8: the leads a merge puts in the history are grouped in the order of   *)
(* the files of the batch and, within a file, in the order of the           *)
(* extraction response, whatever the order in which the tasks completed.    *)
C8_SubmissionOrder ==
  [][\A r \in DOMAIN runs' :
       Merged(r) =>
         /\ Grown = SumLen(Results(runs'[r]))
         /\ \A a \in 1..Grown :
              /\ RunOf(leads'[a]) = r
              /\ leads'[a].sourceFile = FileName(runs'[r].files[leads'[a].id[2]])
         /\ \A a, b \in 1..Grown :
              a < b =>
                \/ leads'[a].id[2] < leads'[b].id[2]
                \/ leads'[a].id[2] = leads'[b].id[2] /\ leads'[a].id[3] < leads'[b].id[3]]_vars

\* In the history the leads of the first file precede those of the second,
\* and the task of the second file had completed first
C8_Witness ==
  \E a, b \in DOMAIN leads :
    /\ a < b
    /\ RunOf(leads[a]) = RunOf(leads[b])
    /\ leads[a].id[2] < leads[b].id[2]
    /\ leads[a].extractedAt > leads[b].extractedAt

(* C9: a merge puts its batch in front of the history as one block, in the *)
(* order of the batch; so the history is the blocks of the merged batches,  *)
(* the most recently merged first, each contiguous.                         *)
C9_NewestBlockFirst ==
  /\ [][\A r \in DOMAIN runs' :
          Merged(r) =>
            LET acc == NewLeadsAccumulator(runs'[r]) IN
            /\ Len(leads') = Len(acc) + Len(leads)
            /\ \A k \in 1..Len(acc) : [leads'[k] EXCEPT !.isDuplicate = FALSE] = acc[k]
            /\ \A k \in 1..Len(leads) : leads'[Len(acc) + k] = leads[k]]_vars
  /\ [](\A a, b, c \in DOMAIN leads :
           a < b /\ b < c /\ RunOf(leads[a]) = RunOf(leads[c]) => RunOf(leads[b]) = RunOf(leads[a]))

\* Two blocks: the two leads of the later batch, in the order of its
\* response, then a lead of the earlier batch
C9_Witness ==
  \E a, b, c \in DOMAIN leads :
    /\ a < b /\ b < c
    /\ RunOf(leads[a]) = RunOf(leads[b])
    /\ leads[a].id[3] < leads[b].id[3]
    /\ RunOf(leads[c]) < RunOf(leads[a])

(* C10: the updater is applied to the history current when the batch is    *)
(* merged: when batches are in flight together and succeed, the history     *)
(* holds every lead of every merged batch, once, and of two leads of        *)
(* different batches with one number the one merged later is flagged.       *)
C10_NoLostUpdates ==
  /\ \A r \in Succeeded : \A i \in DOMAIN runs[r].tasks : \A k \in DOMAIN runs[r].tasks[i].result :
       runs[r].tasks[i].result[k].id \in {leads[a].id : a \in DOMAIN leads}
  /\ Len(leads) = MergedCount(runs)
  /\ \A a, b \in DOMAIN leads :
       a < b /\ RunOf(leads[a]) # RunOf(leads[b])
             /\ leads[a].phoneNumber = leads[b].phoneNumber => leads[a].isDuplicate

\* Two batches were in flight together (the one begun first merged last) and
\* its lead is flagged for the number the other batch had merged
C10_Witness ==
  \E a, b \in DOMAIN leads :
    /\ a < b
    /\ RunOf(leads[a]) < RunOf(leads[b])
    /\ leads[a].phoneNumber = leads[b].phoneNumber
    /\ leads[a].isDuplicate /\ ~leads[b].isDuplicate
    /\ Succeeded = DOMAIN runs /\ Len(runs) = 2

(* C11: in every reachable state no two leads of the history have the same *)
(* id, whether they share a phone number, a file or a batch or not.         *)
C11_UniqueIds ==
  \A a, b \in DOMAIN leads : a # b => leads[a].id # leads[b].id

\* Two leads of one file with one number, and a lead of another batch
C11_Witness ==
  \E a, b, c \in DOMAIN leads :
    /\ a < b /\ b < c
    /\ RunOf(leads[a]) = RunOf(leads[b])
    /\ leads[a].sourceFile = leads[b].sourceFile
    /\ leads[a].phoneNumber = leads[b].phoneNumber
    /\ RunOf(leads[c]) # RunOf(leads[a])
    /\ leads[c].phoneNumber = leads[a].phoneNumber

\* The candidates of a run materialized by another call: as run r2, with the
\* task of file i completing at time nows[i]
Rematerialize(run, r2, nows) ==
  Flatten([i \in DOMAIN run.tasks |->
             MapToLeads(run.tasks[i].result, run.files[i], r2, i, nows[i])])

\* A history but for the ids of its leads, and but for their ids and times
EraseId(ls) == [k \in DOMAIN ls |-> [ls[k] EXCEPT !.id = <<>>]]

EraseIdAndTime(ls) == [k \in DOMAIN ls |-> [ls[k] EXCEPT !.id = <<>>, !.extractedAt = 0]]

\* The times at which the tasks of another call complete: one after the
\* other, the task of the last file first
CompletionTimes(run) == {[i \in DOMAIN run.tasks |-> Len(run.tasks) - i]}

\* Another call of processFiles than those of the session
OtherCall == MaxRuns + 1

C13_TwoSingleLeadBatches ==
  [][\A r \in DOMAIN runs' :
       Merged(r) /\ Len(NewLeadsAccumulator(runs'[r])) = 1 =>
         /\ leads = <<>> => Len(leads') = 1 /\ ~leads'[1].isDuplicate
         /\ Len(leads) = 1 =>
              /\ Len(leads') = 2
              /\ leads'[1].id = NewLeadsAccumulator(runs'[r])[1].id
              /\ leads'[1].isDuplicate <=> leads'[1].phoneNumber = leads[1].phoneNumber
              /\ leads'[2] = leads[1]
              /\ ~leads'[2].isDuplicate]_vars

\* Two batches of one lead with one number were merged into the empty history
C13_Witness ==
  /\ Len(leads) = 2
  /\ RunOf(leads[1]) # RunOf(leads[2])
  /\ leads[1].phoneNumber = leads[2].phoneNumber
  /\ leads[1].isDuplicate /\ ~leads[2].isDuplicate

\* Two batches of one lead with two numbers were merged into the empty history
C13_WitnessDistinct ==
  /\ Len(leads) = 2
  /\ RunOf(leads[1]) # RunOf(leads[2])
  /\ leads[1].phoneNumber # leads[2].phoneNumber
  /\ ~leads[1].isDuplicate /\ ~leads[2].isDuplicate

\* What the mime type and the extension of a file indicate
IndicatesImage(file) == file.type \in {"image/png", "image/jpeg"}

IndicatesText(file) == file.type \in {"text/csv", "text/plain"}

AbsentOrGeneric(file) == file.type \in {"", "application/octet-stream"}

TextExtension(file) == file.ext \in {".csv", ".txt"}

\* The decoding of a file as stated, and as amended
DecodingAsStated(file) ==
  IF IndicatesImage(file) THEN "dataURL"
  ELSE IF IndicatesText(file) \/ (AbsentOrGeneric(file) /\ TextExtension(file)) THEN "text"
  ELSE "unsupported"

DecodingAmended(file) ==
  IF IndicatesImage(file) THEN "dataURL"
  ELSE IF IndicatesText(file) \/ TextExtension(file) THEN "text"
  ELSE "unsupported"

\* Every file of every run is handled as Decoding says: not read and failed
\* with UnsupportedFileType under its name; or read, and what is passed on is
\* the base64 payload with the file's mime type, or the text as text/plain;
\* a read that fails gives FileReadFailure under the file's name.
DecodedAs(Decoding(_)) ==
  \A r \in DOMAIN runs : \A i \in DOMAIN runs[r].tasks :
    LET file == runs[r].files[i]
        task == runs[r].tasks[i]
        kind == Decoding(file)
    IN /\ kind = "unsupported" =>
            /\ ~task.read /\ ~task.called /\ task.failed
            /\ \E k \in DOMAIN runs[r].errors :
                 runs[r].errors[k] = ErrorEntry(file, UnsupportedFileType)
       /\ kind # "unsupported" =>
            /\ task.read
            /\ task.called =>
                 /\ task.args.content = <<kind, FileName(file)>>
                 /\ task.args.mimeType = IF kind = "dataURL" THEN file.type ELSE "text/plain"
            /\ task.failed /\ ~task.called =>
                 \E k \in DOMAIN runs[r].errors :
                   runs[r].errors[k] = ErrorEntry(file, FileReadFailure)

(* C14 as stated: an image mime type decodes to base64 tagged with that    *)
(* type; a text or CSV mime type decodes to text tagged text/plain; the     *)
(* extension .csv/.txt counts only when the mime type is absent or generic; *)
(* every other file fails with UnsupportedFileType under its name; a read   *)
(* that fails gives FileReadFailure under the file's name.                  *)
C14_DecoderAsStated == DecodedAs(DecodingAsStated)

(* C14 amended: as stated, but the extension .csv/.txt counts whenever the *)
(* mime type indicates neither an image nor text or CSV.                    *)
C14_DecoderAmended == DecodedAs(DecodingAmended)

\* A .csv file declared as a spreadsheet was read as text and passed on
C14_Witness ==
  \E r \in DOMAIN runs : \E i \in DOMAIN runs[r].tasks :
    /\ runs[r].files[i].type = "application/vnd.ms-excel"
    /\ runs[r].files[i].ext = ".csv"
    /\ runs[r].tasks[i].called
    /\ runs[r].tasks[i].args.mimeType = "text/plain"

\* A lead or record has its three extracted fields
Complete(item) ==
  /\ item.fullName # Undefined
  /\ item.phoneNumber # Undefined
  /\ item.outreachMessage # Undefined

(* C15: for every response, what extractLeadsFromFile hands to the task of *)
(* a file is a list of records that have all three fields, or one           *)
(* ExtractionFailure: every lead of a task and of the history is complete,  *)
(* a task that fails after the call pushes ExtractionFailure, and a task    *)
(* whose response was empty returns the empty list and pushes no error.     *)
C15_AllOrNothing ==
  /\ \A a \in DOMAIN leads : Complete(leads[a])
  /\ \A r \in DOMAIN runs : \A i \in DOMAIN runs[r].tasks :
       LET task == runs[r].tasks[i] IN
       /\ \A k \in DOMAIN task.result : Complete(task.result[k])
       /\ task.called /\ task.failed =>
            \E k \in DOMAIN runs[r].errors :
              runs[r].errors[k] = ErrorEntry(runs[r].files[i], ExtractionFailure)

(* C16: in every reachable state, of the leads of the history with one     *)
(* phone number exactly one is not flagged, the one merged first (of an     *)
(* earlier batch, or earlier in its batch); so the 'New' count is the       *)
(* number of distinct phone numbers of the history.                         *)
C16_OneNewPerNumber ==
  /\ \A p \in PhonesOf(leads) :
       Cardinality({a \in DOMAIN leads : leads[a].phoneNumber = p /\ ~leads[a].isDuplicate}) = 1
  /\ \A a, b \in DOMAIN leads :
       a # b /\ leads[a].phoneNumber = leads[b].phoneNumber /\ ~leads[a].isDuplicate =>
         IF RunOf(leads[a]) = RunOf(leads[b]) THEN a < b ELSE a > b
  /\ NewLeads = Cardinality(PhonesOf(leads))

\* A batch of two leads with one number was merged, then a batch failed
C16_Witness ==
  /\ TotalLeads = 2 /\ DuplicateCount = 1 /\ NewLeads = 1
  /\ status = ERROR
  /\ \E r \in DOMAIN runs : runs[r].pc = "done" /\ runs[r].outcome = ERROR

\* The runs in flight: begun, and not yet past the join
InFlight == {r \in DOMAIN runs : runs[r].pc = "await"}

(* C17: from the start of a batch that is taken until its join and merge   *)
(* have finished the status is PROCESSING, so the upload control takes no   *)
(* files and no two batches are in flight together, also when the batch is  *)
(* started while the reset timer of the batch before is pending.            *)
C17_NoOverlap ==
  /\ InFlight # {} => status = PROCESSING /\ ~UploadEnabled
  /\ Cardinality(InFlight) <= 1

(* C18 as stated: the Lead objects of a batch (id, extractedAt) are made   *)
(* by the merge, after all files of the batch have completed: no task holds *)
(* a Lead before its run has merged, none is held for a batch that failed,  *)
(* and the leads of one batch carry one time, that of the merge.            *)
C18_MadeByTheMerge ==
  /\ \A r \in DOMAIN runs : \A i \in DOMAIN runs[r].tasks :
       ~(runs[r].pc = "done" /\ runs[r].outcome = SUCCESS) => runs[r].tasks[i].result = <<>>
  /\ \A a, b \in DOMAIN leads :
       RunOf(leads[a]) = RunOf(leads[b]) => leads[a].extractedAt = leads[b].extractedAt

(* C18 amended: the Lead objects of a file (id, extractedAt) are made      *)
(* once, by the task of the file when its extraction completes, at that     *)
(* time; the merge comes after all tasks of the batch have completed, puts  *)
(* these objects in the history and changes only their isDuplicate flag;    *)
(* no Lead is held for a batch that ends in failure.                        *)
C18_MadeByTheTask ==
  /\ [][\A r \in DOMAIN runs : \A i \in DOMAIN runs[r].tasks :
          LET task == runs[r].tasks[i]
              after == runs'[r].tasks[i]
          IN /\ after.result # task.result =>
                  /\ task.pc = "extracting" /\ after.pc = "done" /\ task.result = <<>>
                  /\ \A k \in DOMAIN after.result :
                       /\ after.result[k].id = <<r, i, k>>
                       /\ after.result[k].extractedAt =
                            Cardinality({j \in DOMAIN runs[r].tasks : runs[r].tasks[j].pc = "done"})
             /\ Merged(r) =>
                  /\ after.pc = "done"
                  /\ \A k \in DOMAIN after.result :
                       \E a \in 1..Grown :
                         [leads'[a] EXCEPT !.isDuplicate = FALSE] = after.result[k]]_vars
  /\ [](\A r \in DOMAIN runs :
          runs[r].pc = "done" /\ runs[r].outcome = ERROR =>
            \A i \in DOMAIN runs[r].tasks : runs[r].tasks[i].result = <<>>)

\* The task of one file holds its Leads while the task of another file of the
\* batch is still running
C18_Witness ==
  \E r \in DOMAIN runs : \E i, j \in DOMAIN runs[r].tasks :
    /\ runs[r].pc = "await"
    /\ runs[r].tasks[i].pc = "done" /\ Len(runs[r].tasks[i].result) > 0
    /\ runs[r].tasks[j].pc = "extracting"
    /\ \A a \in DOMAIN leads : RunOf(leads[a]) # r

(* C19: in every batch that is taken each file is handed to a reader at    *)
(* most once and extractLeadsFromFile is called at most once for it, in the *)
(* step in which its read succeeds; a file that is not read or whose read   *)
(* fails never reaches the call; a task that has completed and a run that   *)
(* has ended are never started again.                                       *)
C19_SingleAttempt ==
  /\ [](\A r \in DOMAIN runs : \A i \in DOMAIN runs[r].tasks :
          LET task == runs[r].tasks[i] IN
          /\ task.called => task.read /\ task.pc # "reading"
          /\ ReadKind(runs[r].files[i]) = "unsupported" =>
               ~task.read /\ ~task.called /\ task.pc = "done"
          /\ task.pc = "extracting" => task.called /\ ~task.failed)
  /\ [][\A r \in DOMAIN runs :
          /\ runs'[r].files = runs[r].files
          /\ runs[r].pc \in {"done", "rejected"} => runs'[r] = runs[r]
          /\ \A i \in DOMAIN runs[r].tasks :
               LET task == runs[r].tasks[i]
                   after == runs'[r].tasks[i]
               IN /\ after.read = task.read
                  /\ after.called /\ ~task.called =>
                       task.pc = "reading" /\ after.pc = "extracting" /\ ~after.failed
                  /\ task.called => after.called /\ after.args = task.args
                  /\ task.pc = "extracting" => after.pc \in {"extracting", "done"}
                  /\ task.pc = "reading" /\ after.pc = "done" => after.failed /\ ~after.called
                  /\ task.pc = "done" => after = task]_vars

\* A batch has ended in which the read of one file failed, so that it was not
\* passed on, and the other file was read and passed on once
C19_Witness ==
  \E r \in DOMAIN runs : \E i, j \in DOMAIN runs[r].tasks :
    /\ runs[r].pc = "done"
    /\ runs[r].tasks[i].read /\ runs[r].tasks[i].failed /\ ~runs[r].tasks[i].called
    /\ runs[r].tasks[j].read /\ runs[r].tasks[j].called /\ runs[r].tasks[j].pc = "done"

(* C20: for every batch, submitted through the file input or dropped, the  *)
(* sender name and the company name passed to extractLeadsFromFile for each *)
(* of its files are the campaign settings at the time of the submission,    *)
(* also after the user has edited them.                                     *)
C20_SettingsAtSubmission ==
  /\ [][\A r \in DOMAIN runs' :
          r \notin DOMAIN runs =>
            runs'[r].sender = senderName /\ runs'[r].company = companyName]_vars
  /\ [](\A r \in DOMAIN runs : \A i \in DOMAIN runs[r].tasks :
          runs[r].tasks[i].called =>
            /\ runs[r].tasks[i].args.senderName = runs[r].sender
            /\ runs[r].tasks[i].args.companyName = runs[r].company)

\* Run r has begun and awaits its tasks; run r has ended, in SUCCESS or ERROR
Awaiting(r) == r \in DOMAIN runs /\ runs[r].pc = "await"

Ended(r) == r \in DOMAIN runs /\ runs[r].pc = "done" /\ runs[r].outcome \in {SUCCESS, ERROR}

(* C21: if every read and every call completes, every batch that is taken  *)
(* leaves PROCESSING, for SUCCESS or ERROR and at its join, and afterwards  *)
(* the status returns to IDLE; as long as a task of the batch has not       *)
(* completed the status stays PROCESSING and the history is changed only by *)
(* the merge of a batch whose tasks have all completed.                     *)
C21_Termination ==
  /\ \A r \in 1..MaxRuns : Awaiting(r) ~> Ended(r)
  /\ \A r \in 1..MaxRuns : Ended(r) ~> (status = IDLE)
  /\ [][/\ status = PROCESSING /\ status' # PROCESSING =>
            status' \in {SUCCESS, ERROR} /\ \E r \in DOMAIN runs' : Joined(r)
        /\ InFlight # {} => status = PROCESSING
        /\ leads' # leads =>
            \E r \in DOMAIN runs' : Merged(r) /\ AllSettled(runs'[r])]_vars

\* The parts of C21 about what happens eventually
C21_Eventually ==
  /\ \A r \in 1..MaxRuns : Awaiting(r) ~> Ended(r)
  /\ \A r \in 1..MaxRuns : Ended(r) ~> (status = IDLE)

====
